---- MODULE Spec2Model ----
(***************************************************************************)
(* A model of curling (src/curling/lib.py): the attribute-traversal REST   *)
(* client built on slumber.  Adapters (TastypieResource) are derived from  *)
(* an API root by attribute access and by calls with a primary key; verb   *)
(* calls go through _request, which runs the registered callbacks, emits   *)
(* the statsd metrics, classifies the status and raises the typed errors.  *)
(*                                                                         *)
(* Python values are tagged records: [t |-> "none"], [t |-> "str", ...],   *)
(* [t |-> "list", items |-> <<...>>], [t |-> "dict", d |-> function] and   *)
(* [t |-> "tlist", items, attrs] for a TastypieList.  Strings that the     *)
(* code takes apart (URLs, paths, statsd keys) are sequences of tokens,    *)
(* "/" and "." being tokens of their own.                                  *)
(***************************************************************************)
EXTENDS Naturals, Sequences, FiniteSets, TLC

VARIABLES settingsFormatLists, rootStore, callbackList, adapters, last

vars == <<settingsFormatLists, rootStore, callbackList, adapters, last>>

(***************************************************************************)
(* Bounds of the model.                                                    *)
(***************************************************************************)
MaxAdapters == 2
MaxObjects == 2
MaxCallbacks == 2

(***************************************************************************)
(* Python values.                                                          *)
(***************************************************************************)
NoneV == [t |-> "none"]
FalseV == [t |-> "bool", v |-> FALSE]
StrV(s) == [t |-> "str", s |-> s]
IntV(n) == [t |-> "int", v |-> n]
ListV(items) == [t |-> "list", items |-> items]
DictV(d) == [t |-> "dict", d |-> d]
Invalid == [t |-> "invalid"]

Return(v) == [kind |-> "return", exc |-> "", value |-> v, response |-> NoneV]
Raise(e) == [kind |-> "raise", exc |-> e, value |-> NoneV, response |-> NoneV]
RaiseHttp(e, resp, content) ==
    [kind |-> "raise", exc |-> e, value |-> content, response |-> resp]

(***************************************************************************)
(* URLs.  A URL is a sequence of tokens; a first token of Origins is its   *)
(* scheme and host, the rest is its path.                                  *)
(***************************************************************************)
Origins == {"http://foo.com"}

urlsplit(url) ==
    IF url # <<>> /\ url[1] \in Origins
    THEN [netloc |-> <<url[1]>>, path |-> Tail(url)]
    ELSE [netloc |-> <<>>, path |-> url]

posixpath_join(a, b) ==
    IF b # <<>> /\ b[1] = "/" THEN b
    ELSE IF a = <<>> \/ a[Len(a)] = "/" THEN a \o b
    ELSE a \o <<"/">> \o b

\* A join that glues the item to the path with no separating slash.
url_join_noslash(base, item) ==
    LET u == urlsplit(base)
    IN  u.netloc \o u.path \o item

\* slumber.url_join: posixpath.join on the path, "/" standing in for an empty path.
url_join(base, item) ==
    LET u == urlsplit(base)
        path == IF u.path = <<>> THEN <<"/">> ELSE u.path
    IN  u.netloc \o posixpath_join(path, item)

(***************************************************************************)
(* str.split('/') on a token sequence: the pieces between the slashes,     *)
(* empty pieces included, so that a string with n slashes has n+1 pieces.  *)
(***************************************************************************)
RECURSIVE split(_)
split(s) ==
    IF \A i \in 1..Len(s) : s[i] # "/" THEN <<s>>
    ELSE LET k == CHOOSE i \in 1..Len(s) :
                      s[i] = "/" /\ \A j \in 1..(i - 1) : s[j] # "/"
         IN  <<SubSeq(s, 1, k - 1)>> \o split(SubSeq(s, k + 1, Len(s)))

RECURSIVE join(_, _)
join(sep, pieces) ==
    IF pieces = <<>> THEN <<>>
    ELSE IF Len(pieces) = 1 THEN pieces[1]
    ELSE pieces[1] \o <<sep>> \o join(sep, Tail(pieces))

NonEmpty(p) == p # <<>>

\* A key that keeps the empty pieces of the path.
_key_unfiltered(url, method) ==
    join(".", split(urlsplit(url).path)) \o <<".", method>>

_key(url, method) ==
    join(".", SelectSeq(split(urlsplit(url).path), NonEmpty)) \o <<".", method>>

\* A parser that counts the pieces from the first one: split[0:2], split[2].
default_parser_off_by_one(url) ==
    LET sp == split(url)
    IN  IF Len(sp) < 3 THEN Raise("IndexError")
        ELSE Return([resources |-> SubSeq(sp, 1, 2),
                     pk |-> IF sp[3] = <<>> THEN NoneV ELSE StrV(sp[3])])

\* split[1:3], split[3] or None: Python indexes from 0, a slice never fails,
\* split[3] fails when there are fewer than four pieces.
default_parser(url) ==
    LET sp == split(url)
    IN  IF Len(sp) < 4 THEN Raise("IndexError")
        ELSE Return([resources |-> SubSeq(sp, 2, 3),
                     pk |-> IF sp[4] = <<>> THEN NoneV ELSE StrV(sp[4])])

(***************************************************************************)
(* Responses.  A response carries its status code, its headers and the     *)
(* value its content deserializes to under the configured serializer       *)
(* (Invalid: the serializer's loads raises ValueError).                    *)
(***************************************************************************)
ResponseHeaders == DictV("content-type" :> StrV(<<"application/json">>))

Response(status, body) ==
    [t |-> "response", status_code |-> status, headers |-> ResponseHeaders,
     body |-> body]

Answers(resp) == [kind |-> "response", resp |-> resp]
ConnectionError == [kind |-> "ConnectionError", resp |-> NoneV]

\* slumber's Resource._try_to_serialize_response, called through super().
Resource_try_to_serialize_response(resp) ==
    IF resp.body = Invalid THEN Raise("ValueError") ELSE Return(resp.body)

\* u'meta' in resp
contains_meta(v) ==
    CASE v.t = "dict" -> IF "meta" \in DOMAIN v.d THEN "true" ELSE "false"
      [] v.t \in {"list", "tlist"} ->
            IF \E i \in 1..Len(v.items) : v.items[i] = StrV(<<"meta">>)
            THEN "true" ELSE "false"
      [] v.t = "str" ->
            IF \E i \in 1..Len(v.s) : v.s[i] = "meta" THEN "true" ELSE "false"
      [] OTHER -> "TypeError"

_is_list(v) == v.t = "dict" /\ {"meta", "objects"} \subseteq DOMAIN v.d

_format_list(v) ==
    LET objects == v.d["objects"]
        meta == v.d["meta"]
    IN  IF objects.t \notin {"list", "tlist"} THEN Raise("TypeError")
        ELSE IF meta.t # "dict" THEN Raise("AttributeError")
        ELSE Return([t |-> "tlist", items |-> objects.items, attrs |-> meta.d])

\* resp[u'meta'][u'headers'] = headers: the parsed body must be subscriptable by
\* a key and its 'meta' must support item assignment.
set_meta_headers(v, headers) ==
    IF v.t = "dict" /\ v.d["meta"].t = "dict"
    THEN Return(DictV([v.d EXCEPT !["meta"] =
                          DictV(("headers" :> headers) @@ v.d["meta"].d)]))
    ELSE Raise("TypeError")

_try_to_serialize_response(format_lists, resp) ==
    LET parsed == Resource_try_to_serialize_response(resp)
        found == contains_meta(parsed.value)
        marked == IF found = "true"
                  THEN set_meta_headers(parsed.value, resp.headers)
                  ELSE parsed
    IN  IF parsed.kind = "raise" THEN parsed
        ELSE IF found = "TypeError" THEN Raise("TypeError")
        ELSE IF marked.kind = "raise" THEN marked
        ELSE IF format_lists /\ _is_list(marked.value)
             THEN _format_list(marked.value)
             ELSE marked

\* except ValueError: return response
_try_to_serialize_error(format_lists, resp) ==
    LET r == _try_to_serialize_response(format_lists, resp)
    IN  IF r.kind = "raise" /\ r.exc = "ValueError" THEN Return(resp) ELSE r

(***************************************************************************)
(* Callbacks.  sign_request puts the signed Authorization header (stood    *)
(* for by the consumer key it is computed from) into the outgoing headers. *)
(***************************************************************************)
sign_request(extra, headers) == ("Authorization" :> extra.key) @@ headers

foo(extra, headers) == ("Foo" :> "bar") @@ headers

run_callback(cb, headers) ==
    IF cb.method = "sign_request" THEN sign_request(cb.extra, headers)
    ELSE foo(cb.extra, headers)

RECURSIVE run_callbacks(_, _)
run_callbacks(cbs, headers) ==
    IF cbs = <<>> THEN headers
    ELSE run_callbacks(Tail(cbs), run_callback(Head(cbs), headers))

StatusToken(n) ==
    CASE n = 200 -> "200" [] n = 301 -> "301" [] n = 304 -> "304"
      [] n = 400 -> "400" [] n = 404 -> "404" [] n = 500 -> "500"
      [] OTHER -> "other"

(***************************************************************************)
(* _request.  The result holds the outcome (the response returned or the   *)
(* error raised) and what the call did on the way: the request handed to   *)
(* the transport and the calls made to statsd.timer and statsd.incr.       *)
(* metrics says how the statsd client behaves: "ok", "timer_raises" or     *)
(* "incr_raises".                                                          *)
(***************************************************************************)
request_url(store) ==
    IF store.append_slash /\ (store.base_url = <<>>
                              \/ store.base_url[Len(store.base_url)] # "/")
    THEN store.base_url \o <<"/">>
    ELSE store.base_url

store_callbacks(store, list) == IF store.callbacks THEN list ELSE <<>>

classify(status, resp, format_lists) ==
    IF 400 <= status /\ status <= 499
    THEN LET c == _try_to_serialize_error(format_lists, resp)
         IN  IF c.kind = "raise" THEN c
             ELSE RaiseHttp("HttpClientError", resp, c.value)
    ELSE IF 500 <= status /\ status <= 599
    THEN LET c == _try_to_serialize_error(format_lists, resp)
         IN  IF c.kind = "raise" THEN c
             ELSE RaiseHttp("HttpServerError", resp, c.value)
    ELSE Return(resp)

_request(adapter, list, method, transport, metrics) ==
    LET url == request_url(adapter)
        hdrs == run_callbacks(store_callbacks(adapter, list),
                              ("accept" :> "application/json")
                              @@ ("content-type" :> "application/json"))
        stats_key == _key(url, method)
        req == [method |-> method, url |-> url, headers |-> hdrs]
    IN  IF metrics = "timer_raises"
        THEN [outcome |-> Raise("MetricsError"), sent |-> <<>>,
              timers |-> <<stats_key>>, counters |-> <<>>]
        ELSE IF transport.kind = "ConnectionError"
        THEN [outcome |-> RaiseHttp("HttpServerError", NoneV, NoneV),
              sent |-> <<req>>, timers |-> <<stats_key>>, counters |-> <<>>]
        ELSE LET resp == transport.resp
                 counter == stats_key \o <<".", StatusToken(resp.status_code)>>
             IN  IF metrics = "incr_raises"
                 THEN [outcome |-> Raise("MetricsError"), sent |-> <<req>>,
                       timers |-> <<stats_key>>, counters |-> <<counter>>]
                 ELSE [outcome |-> classify(resp.status_code, resp,
                                            adapter.format_lists),
                       sent |-> <<req>>, timers |-> <<stats_key>>,
                       counters |-> <<counter>>]

Method(op) ==
    CASE op = "get" -> "GET" [] op = "post" -> "POST"
      [] op = "put" -> "PUT" [] op = "patch" -> "PATCH"

\* What get, post, patch and put make of the response _request returned.
verb_result(op, format_lists, resp) ==
    IF 200 <= resp.status_code /\ resp.status_code <= 299
    THEN _try_to_serialize_response(format_lists, resp)
    ELSE IF op = "get" /\ resp.status_code = 304 THEN Return(resp)
    ELSE IF op = "put" THEN Return(FalseV)
    ELSE Return(NoneV)

\* get, post, patch, put: the whole call, as a record like _request's.
verb(op, adapter, list, transport, metrics) ==
    LET r == _request(adapter, list, Method(op), transport, metrics)
    IN  IF r.outcome.kind = "raise" THEN r
        ELSE [r EXCEPT !.outcome =
                 verb_result(op, adapter.format_lists, r.outcome.value)]

isinstance_list(v) == v.t \in {"list", "tlist"}

\* A get_object without the check for more than one element.
get_object_first(res) ==
    IF res.kind = "raise" THEN res
    ELSE IF isinstance_list(res.value)
    THEN IF Len(res.value.items) < 1 THEN Raise("ObjectDoesNotExist")
         ELSE Return(res.value.items[1])
    ELSE res

\* get_object, from the outcome of its self.get(**kw).
get_object(res) ==
    IF res.kind = "raise" THEN res
    ELSE IF isinstance_list(res.value)
    THEN IF Len(res.value.items) < 1 THEN Raise("ObjectDoesNotExist")
         ELSE IF Len(res.value.items) > 1 THEN Raise("MultipleObjectsReturned")
         ELSE Return(res.value.items[1])
    ELSE res

\* A get_object_or_404 that translates every client error.
get_object_or_404_any(obj) ==
    IF obj.kind = "raise" /\ obj.exc = "HttpClientError"
    THEN Raise("ObjectDoesNotExist")
    ELSE obj

\* get_object_or_404, from the outcome of its self.get_object(**kw).
get_object_or_404(obj) ==
    IF obj.kind = "raise" /\ obj.exc = "HttpClientError"
    THEN IF obj.response.status_code = 404 THEN Raise("ObjectDoesNotExist")
         ELSE obj
    ELSE obj

\* Python truth value of a result.
falsy(v) ==
    CASE v.t = "none" -> TRUE
      [] v.t = "bool" -> ~v.v
      [] v.t = "int" -> v.v = 0
      [] v.t = "str" -> v.s = <<>>
      [] v.t \in {"list", "tlist"} -> v.items = <<>>
      [] v.t = "dict" -> DOMAIN v.d = {}
      [] OTHER -> FALSE

\* get_list_or_404, from the outcome of its self.get(**kw).
get_list_or_404(res) ==
    IF res.kind = "raise" THEN res
    ELSE IF falsy(res.value) THEN Raise("ObjectDoesNotExist")
    ELSE res

(***************************************************************************)
(* Adapters.  adapters[i] is the i-th TastypieResource the caller holds:   *)
(* the entries of its own _store (base_url, append_slash, and whether it   *)
(* has a 'callbacks' entry, which then refers to the one list object the   *)
(* root created), its format_lists flag, and, as history, the chain of     *)
(* accesses it was derived by.  Index 0 stands for the API root, whose     *)
(* _store is rootStore.  The attribute _ (the last response), which        *)
(* nothing reads, is left out.                                             *)
(***************************************************************************)
Store(i) == IF i = 0 THEN rootStore ELSE adapters[i]

Chain(i) == IF i = 0 THEN <<>> ELSE adapters[i].chain

\* TastypieResource.__init__ on the kwargs copied from the parent's _store.
TastypieResource(store, base_url, chain) ==
    [base_url |-> base_url, append_slash |-> store.append_slash,
     callbacks |-> store.callbacks, format_lists |-> settingsFormatLists,
     chain |-> chain]

UnderscoreTokens == {"_store"}

startswith_underscore(item) == item # <<>> /\ item[1] \in UnderscoreTokens

__getattr__(store, chain, item) ==
    IF startswith_underscore(item) THEN Raise("AttributeError")
    ELSE Return(TastypieResource(store, url_join(store.base_url, item),
                                 Append(chain, [via |-> "attr", item |-> item])))

\* slumber's Resource.__call__(id) with an id: a new resource of the same class.
__call__(adapter, id) ==
    TastypieResource(adapter, url_join(adapter.base_url, id),
                     Append(adapter.chain, [via |-> "call", item |-> id]))

RECURSIVE getattr_chain(_, _)
getattr_chain(current, resources) ==
    IF resources = <<>> \/ current.kind = "raise" THEN current
    ELSE getattr_chain(__getattr__(current.value, current.value.chain,
                                   Head(resources)),
                       Tail(resources))

\* The root as the start of a chain: its store, and no access made yet.
RootAsCurrent == Return([base_url |-> rootStore.base_url,
                         append_slash |-> rootStore.append_slash,
                         callbacks |-> rootStore.callbacks,
                         format_lists |-> FALSE, chain |-> <<>>])

by_url(url) ==
    LET parsed == default_parser(url)
    IN  IF parsed.kind = "raise" THEN parsed
        ELSE LET current == getattr_chain(RootAsCurrent, parsed.value.resources)
                 pk == parsed.value.pk
             IN  IF current.kind = "raise" THEN current
                 ELSE IF ~falsy(pk) THEN Return(__call__(current.value, pk.s))
                 ELSE current

\* A helper that leaves the flag as it found it.
keep_format_lists(adapter) == adapter

\* self.format_lists = True
force_format_lists(adapter) == [adapter EXCEPT !.format_lists = TRUE]

(***************************************************************************)
(* last: the latest call and what it did.  get is the outcome of the       *)
(* self.get() a helper made (of the call itself for a plain verb).         *)
(***************************************************************************)
NoTransport == [kind |-> "none", resp |-> NoneV]

LastNav(op, self, arg, outcome) ==
    [op |-> op, self |-> self, arg |-> arg, transport |-> NoTransport,
     metrics |-> "ok", get |-> Return(NoneV), outcome |-> outcome,
     sent |-> <<>>, timers |-> <<>>, counters |-> <<>>]

LastReq(op, self, transport, metrics, r, outcome) ==
    [op |-> op, self |-> self, arg |-> <<>>, transport |-> transport,
     metrics |-> metrics, get |-> r.outcome, outcome |-> outcome,
     sent |-> r.sent, timers |-> r.timers, counters |-> r.counters]

AdapterRef(id) == [t |-> "adapter", id |-> id]

\* Keep a newly made adapter, or record the error.
Derive(op, self, arg, r) ==
    IF r.kind = "raise"
    THEN /\ adapters' = adapters
         /\ last' = LastNav(op, self, arg, r)
    ELSE /\ adapters' = Append(adapters, r.value)
         /\ last' = LastNav(op, self, arg, Return(AdapterRef(Len(adapters) + 1)))

GetAttr(i, item) ==
    /\ i \in 0..Len(adapters)
    /\ Len(adapters) < MaxAdapters
    /\ Derive("getattr", i, item, __getattr__(Store(i), Chain(i), item))
    /\ UNCHANGED <<settingsFormatLists, rootStore, callbackList>>

Call(i, id) ==
    /\ i \in 1..Len(adapters)
    /\ Len(adapters) < MaxAdapters
    /\ Derive("call", i, id, Return(__call__(adapters[i], id)))
    /\ UNCHANGED <<settingsFormatLists, rootStore, callbackList>>

ByUrl(url) ==
    /\ Len(adapters) < MaxAdapters
    /\ Derive("by_url", 0, url, by_url(url))
    /\ UNCHANGED <<settingsFormatLists, rootStore, callbackList>>

\* self._store.setdefault('callbacks', []); self._store['callbacks'].append(...)
_add_callback(callback_dict) ==
    /\ Len(callbackList) < MaxCallbacks
    /\ rootStore' = [rootStore EXCEPT !.callbacks = TRUE]
    /\ callbackList' = Append(callbackList, callback_dict)
    /\ UNCHANGED <<settingsFormatLists, adapters>>

AddCallback ==
    /\ _add_callback([method |-> "foo", extra |-> [key |-> "", secret |-> ""]])
    /\ last' = LastNav("_add_callback", 0, <<>>, Return(NoneV))

activate_oauth(key, secret) ==
    /\ _add_callback([method |-> "sign_request",
                      extra |-> [key |-> key, secret |-> secret]])
    /\ last' = LastNav("activate_oauth", 0, <<>>, Return(NoneV))

Verbs == {"get", "post", "put", "patch"}
Helpers == {"get_object", "get_object_or_404", "get_list_or_404"}

Request(op, i, transport, metrics) ==
    /\ i \in 1..Len(adapters)
    /\ LET r == verb(op, adapters[i], callbackList, transport, metrics)
       IN  last' = LastReq(op, i, transport, metrics, r, r.outcome)
    /\ UNCHANGED <<settingsFormatLists, rootStore, callbackList, adapters>>

helper_result(op, res) ==
    CASE op = "get_object" -> get_object(res)
      [] op = "get_object_or_404" -> get_object_or_404(get_object(res))
      [] op = "get_list_or_404" -> get_list_or_404(res)

Helper(op, i, transport, metrics) ==
    /\ i \in 1..Len(adapters)
    /\ LET self == force_format_lists(adapters[i])
           r == verb("get", self, callbackList, transport, metrics)
       IN  /\ adapters' = [adapters EXCEPT ![i] = self]
           /\ last' = LastReq(op, i, transport, metrics, r,
                              helper_result(op, r.outcome))
    /\ UNCHANGED <<settingsFormatLists, rootStore, callbackList>>

(***************************************************************************)
(* Inputs.                                                                 *)
(***************************************************************************)
Item(k) == DictV("key" :> IntV(k))

Objects(n) == [k \in 1..n |-> Item(k)]

StdMeta == DictV(("limit" :> IntV(20)) @@ ("total_count" :> IntV(185)))

Envelope(meta, objects) == DictV(("meta" :> meta) @@ ("objects" :> ListV(objects)))

Detail == DictV("key" :> StrV(<<"APPEND_SLASH">>))

Bodies200 ==
    {Envelope(StdMeta, Objects(n)) : n \in 0..MaxObjects}
    \cup {ListV(Objects(n)) : n \in 0..MaxObjects}
    \cup {Envelope(DictV("headers" :> IntV(7)), Objects(1)),
          Detail,
          DictV("meta" :> StdMeta),
          DictV(("meta" :> NoneV) @@ ("objects" :> ListV(Objects(1)))),
          StrV(<<"html", "meta">>), StrV(<<"ok">>), NoneV, Invalid}

ErrorBody == DictV("error" :> StrV(<<"nope">>))

ErrorBodies == {ErrorBody, NoneV, Invalid}

Transports ==
    {Answers(Response(200, b)) : b \in Bodies200}
    \cup {Answers(Response(s, b)) : s \in {400, 404, 500}, b \in ErrorBodies}
    \cup {Answers(Response(s, NoneV)) : s \in {301, 304}}
    \cup {ConnectionError}

\* The statsd client fails only on a few of the calls.
MetricsOf(transport) ==
    IF transport \in {Answers(Response(200, Detail)),
                      Answers(Response(404, ErrorBody)), ConnectionError}
    THEN {"ok", "timer_raises", "incr_raises"}
    ELSE {"ok"}

InitLast == LastNav("init", 0, <<>>, Return(NoneV))

(***************************************************************************)
(* Spec: verb calls and helpers on the children of one root, over every    *)
(* transport outcome.                                                      *)
(***************************************************************************)
Init ==
    /\ settingsFormatLists \in BOOLEAN
    /\ rootStore = [base_url |-> <<"http://foo.com">>, append_slash |-> TRUE,
                    callbacks |-> FALSE]
    /\ callbackList = <<>>
    /\ adapters = <<>>
    /\ last = InitLast

DeriveFirst == adapters = <<>> /\ GetAttr(0, <<"a">>)

VerbCall ==
    \E i \in 1..Len(adapters), op \in Verbs, tr \in Transports :
        \E m \in MetricsOf(tr) : Request(op, i, tr, m)

HelperCall ==
    \E i \in 1..Len(adapters), op \in Helpers, tr \in Transports :
        \E m \in MetricsOf(tr) : Helper(op, i, tr, m)

Next == DeriveFirst \/ VerbCall \/ HelperCall

Spec == Init /\ [][Next]_vars

(***************************************************************************)
(* Properties of a call, read from last.                                   *)
(***************************************************************************)
Answered == last.transport.kind = "response"

Status == last.transport.resp.status_code

Body == last.transport.resp.body

Raised(exc) == last.outcome.kind = "raise" /\ last.outcome.exc = exc

IsEnvelope(v) ==
    /\ v.t = "dict"
    /\ {"meta", "objects"} \subseteq DOMAIN v.d
    /\ v.d["meta"].t = "dict"
    /\ v.d["objects"].t = "list"

\* C1: get_object turns the result of its get (made with unwrapping forced on)
\* into the single element of a one-element list, ObjectDoesNotExist for an
\* empty list, MultipleObjectsReturned for a longer one, and hands on any
\* result that is not a list as it is; a 200 list envelope of n objects is
\* such a list of n elements whatever the configured default.
C1_GetObject ==
    last.op = "get_object" =>
        /\ last.get.kind = "return" =>
              LET res == last.get.value
              IN  IF res.t \in {"list", "tlist"}
                  THEN /\ Len(res.items) = 1 => last.outcome = Return(res.items[1])
                       /\ Len(res.items) = 0 => Raised("ObjectDoesNotExist")
                       /\ Len(res.items) > 1 => Raised("MultipleObjectsReturned")
                  ELSE last.outcome = Return(res)
        /\ (last.metrics = "ok" /\ Answered /\ Status = 200 /\ IsEnvelope(Body)) =>
              LET objects == Body.d["objects"].items
              IN  /\ last.get.kind = "return" /\ last.get.value.t = "tlist"
                  /\ last.get.value.items = objects
                  /\ Len(objects) = 1 => last.outcome = Return(objects[1])

C1_Witness ==
    /\ last.op = "get_object"
    /\ ~settingsFormatLists
    /\ Answered /\ Status = 200 /\ IsEnvelope(Body)
    /\ last.outcome = Return(Item(1))

\* C2: with a working statsd client, a verb call raises HttpClientError exactly
\* when the status is in 400..499 and HttpServerError exactly when it is in
\* 500..599 or the transport raised ConnectionError; ConnectionError itself
\* never reaches the caller; a raised 4xx/5xx error carries the response.
C2_StatusDecidesError ==
    (last.op \in Verbs /\ last.metrics = "ok") =>
        /\ Raised("HttpClientError") <=> (Answered /\ Status \in 400..499)
        /\ Raised("HttpServerError") <=>
              (~Answered \/ (Answered /\ Status \in 500..599))
        /\ ~Raised("ConnectionError")
        /\ (Answered /\ Status \in 400..599) =>
              last.outcome.response = last.transport.resp

\* C3: get_object_or_404 raises ObjectDoesNotExist when its get raises a client
\* error with status 404 or returns an empty list; a client error with another
\* status and a server error reach the caller as they were raised.
C3_GetObjectOr404 ==
    last.op = "get_object_or_404" =>
        /\ (last.get.kind = "raise" /\ last.get.exc = "HttpClientError") =>
              IF last.get.response.status_code = 404
              THEN last.outcome = Raise("ObjectDoesNotExist")
              ELSE last.outcome = last.get
        /\ (last.get.kind = "raise" /\ last.get.exc = "HttpServerError") =>
              last.outcome = last.get
        /\ (last.get.kind = "return" /\ last.get.value.t \in {"list", "tlist"}
            /\ last.get.value.items = <<>>) =>
              last.outcome = Raise("ObjectDoesNotExist")
        /\ (last.metrics = "ok" /\ Answered /\ Body.t = "dict") =>
              /\ Status = 404 => last.outcome = Raise("ObjectDoesNotExist")
              /\ Status = 400 =>
                    /\ Raised("HttpClientError")
                    /\ last.outcome.response = last.transport.resp
              /\ Status = 500 =>
                    /\ Raised("HttpServerError")
                    /\ last.outcome.response = last.transport.resp
        /\ (last.metrics = "ok" /\ ~Answered) => Raised("HttpServerError")

C3_Witness ==
    /\ last.op = "get_object_or_404"
    /\ Answered /\ Status = 404
    /\ last.outcome = Raise("ObjectDoesNotExist")

\* C5: on a 2xx response whose parsed body has a 'meta' mapping and an 'objects'
\* sequence, with the adapter's unwrap flag set, a verb call returns a sequence
\* of exactly the objects, in order, with every key of 'meta' as an attribute
\* holding its value; in every other 2xx case it returns the parsed body
\* unchanged.
C5_UnwrapOrUnchanged ==
    (last.op \in Verbs /\ last.metrics = "ok" /\ Answered /\ Status \in 200..299
     /\ Body # Invalid) =>
        IF IsEnvelope(Body) /\ adapters[last.self].format_lists
        THEN /\ last.outcome.kind = "return"
             /\ last.outcome.value.t = "tlist"
             /\ last.outcome.value.items = Body.d["objects"].items
             /\ \A k \in DOMAIN Body.d["meta"].d :
                   /\ k \in DOMAIN last.outcome.value.attrs
                   /\ last.outcome.value.attrs[k] = Body.d["meta"].d[k]
        ELSE last.outcome = Return(Body)

\* C9: a statsd client that raises never fails a verb call: the call returns or
\* raises what it does with a working statsd client on the same response.
C9_MetricsNeverFail ==
    last.op \in Verbs =>
        last.outcome = verb(last.op, adapters[last.self], callbackList,
                            last.transport, "ok").outcome

(***************************************************************************)
(* SpecFlag: helpers and verbs on adapters derived from one another.       *)
(***************************************************************************)
FlagTransports ==
    {Answers(Response(200, Envelope(StdMeta, Objects(n)))) : n \in {0, 1}}
    \cup {Answers(Response(404, ErrorBody))}

DeriveAny == \E i \in 0..Len(adapters) : GetAttr(i, <<"a">>)

FlagVerbCall ==
    \E i \in 1..Len(adapters), op \in Verbs, tr \in FlagTransports :
        Request(op, i, tr, "ok")

FlagHelperCall ==
    \E i \in 1..Len(adapters), op \in Helpers, tr \in FlagTransports,
       m \in {"ok", "timer_raises"} :
        Helper(op, i, tr, m)

NextFlag == DeriveAny \/ FlagVerbCall \/ FlagHelperCall

SpecFlag == Init /\ [][NextFlag]_vars

\* C10: a helper sets format_lists of the adapter it is called on, whether it
\* returns or raises, and changes no other adapter and nothing of the stores;
\* the flag is never reset; a verb call on an adapter whose flag is set unwraps
\* a list envelope whatever the configured default; a newly derived adapter
\* starts from the configured default.
C10_HelpersLeaveFlagSet ==
    /\ [][last'.op \in Helpers =>
            /\ Len(adapters') = Len(adapters)
            /\ adapters'[last'.self] =
                  [adapters[last'.self] EXCEPT !.format_lists = TRUE]
            /\ \A j \in 1..Len(adapters) :
                  j # last'.self => adapters'[j] = adapters[j]
            /\ rootStore' = rootStore
            /\ callbackList' = callbackList
            /\ settingsFormatLists' = settingsFormatLists]_vars
    /\ [][\A j \in 1..Len(adapters) :
            adapters[j].format_lists => adapters'[j].format_lists]_vars
    /\ [][last'.op = "getattr" =>
            /\ \A j \in 1..Len(adapters) : adapters'[j] = adapters[j]
            /\ Len(adapters') > Len(adapters) =>
                  adapters'[Len(adapters')].format_lists = settingsFormatLists]_vars
    /\ [](( /\ last.op \in Verbs
            /\ adapters[last.self].format_lists
            /\ Answered /\ Status = 200 /\ IsEnvelope(Body)) =>
              /\ last.outcome.kind = "return"
              /\ last.outcome.value.t = "tlist")

C10_Witness ==
    /\ ~settingsFormatLists
    /\ Len(adapters) = 2
    /\ adapters[1].format_lists
    /\ Len(adapters[2].chain) = 2
    /\ ~adapters[2].format_lists
    /\ last.op \in Verbs /\ last.self = 1
    /\ last.outcome.kind = "return" /\ last.outcome.value.t = "tlist"

(***************************************************************************)
(* SpecAuth: callbacks registered on the root before and after adapters    *)
(* are derived.                                                            *)
(***************************************************************************)
AuthTransports == {Answers(Response(200, Detail)), Answers(Response(404, ErrorBody))}

ActivateOAuth == \E key \in {"key"}, secret \in {"secret"} : activate_oauth(key, secret)

AuthVerbCall ==
    \E i \in 1..Len(adapters), op \in Verbs, tr \in AuthTransports :
        Request(op, i, tr, "ok")

NextAuth == DeriveAny \/ ActivateOAuth \/ AddCallback \/ AuthVerbCall

SpecAuth == Init /\ [][NextAuth]_vars

Signing == \E k \in 1..Len(callbackList) : callbackList[k].method = "sign_request"

\* C4: once activate_oauth has been called on the root, every request issued
\* from any adapter derived from the root carries an Authorization header,
\* whether the adapter was derived before or after the call.
C4_SignedWhateverTheOrder ==
    (last.op \in Verbs /\ Signing /\ last.sent # <<>>) =>
        "Authorization" \in DOMAIN last.sent[1].headers

(***************************************************************************)
(* SpecNav: attribute chains, calls with a primary key and by_url from     *)
(* several roots, and the request each adapter dispatches.                 *)
(***************************************************************************)
RootUrls ==
    {<<>>, <<"http://foo.com">>, <<"http://foo.com", "/", "api">>,
     <<"http://foo.com", "/", "api", "/">>}

NavItems == {<<"services">>, <<"settings">>, <<"_store">>}

SegmentPairs == {<<"services", "settings">>, <<"settings", "services">>}

Paths ==
    UNION {{<<"/", p[1], "/", p[2], "/">>,
            <<"/", p[1], "/", p[2], "/", "8">>,
            <<"/", p[1], "/", p[2], "/", "8", "/">>,
            <<"/", p[1], "/", p[2]>>} : p \in SegmentPairs}
    \cup {<<>>, <<"/">>, <<"/", "services">>, <<"/", "services", "/">>,
          <<"services", "/", "settings", "/", "8", "/">>}

NavTransports ==
    {Answers(Response(200, Detail)), Answers(Response(304, NoneV)),
     Answers(Response(404, ErrorBody)), ConnectionError}

InitNav ==
    /\ settingsFormatLists = FALSE
    /\ rootStore \in [base_url : RootUrls, append_slash : BOOLEAN,
                      callbacks : {FALSE}]
    /\ callbackList = <<>>
    /\ adapters = <<>>
    /\ last = InitLast

NavGetAttr == \E i \in 0..Len(adapters), item \in NavItems : GetAttr(i, item)

NavCall == \E i \in 1..Len(adapters) : Call(i, <<"8">>)

\* Every method on the statuses get tells apart; the other methods answered 200.
NavCalls ==
    ({"get"} \X NavTransports)
    \cup ({"post", "put", "patch"} \X {Answers(Response(200, Detail))})

NavVerbCall ==
    \E i \in 1..Len(adapters), c \in NavCalls : Request(c[1], i, c[2], "ok")

NextNav == NavGetAttr \/ NavCall \/ NavVerbCall

SpecNav == InitNav /\ [][NextNav]_vars

(***************************************************************************)
(* SpecUrl: by_url on the root, and a get on the adapter it returns.       *)
(***************************************************************************)
NavByUrl == \E url \in Paths : ByUrl(url)

UrlVerbCall ==
    \E i \in 1..Len(adapters) :
        Request("get", i, Answers(Response(200, Detail)), "ok")

NextUrl == NavByUrl \/ UrlVerbCall

SpecUrl == InitNav /\ [][NextUrl]_vars

\* The segments of a path: its tokens other than the slashes.
NotSlash(tok) == tok # "/"

PathSegments(path) == SelectSeq(path, NotSlash)

RECURSIVE Dotted(_)
Dotted(segs) ==
    IF Len(segs) <= 1 THEN segs
    ELSE <<segs[1], ".">> \o Dotted(Tail(segs))

RECURSIVE SlashJoined(_)
SlashJoined(items) ==
    IF items = <<>> THEN <<>>
    ELSE <<"/">> \o Head(items) \o SlashJoined(Tail(items))

\* The root URL, without a slash of its own at the end, followed by the names.
RootThenNames(root, items) ==
    (IF root # <<>> /\ root[Len(root)] = "/"
     THEN SubSeq(root, 1, Len(root) - 1) ELSE root) \o SlashJoined(items)

ChainItems(chain) == [k \in 1..Len(chain) |-> chain[k].item]

OnlyAttr(chain) == \A k \in 1..Len(chain) : chain[k].via = "attr"

\* C6: a verb call that the transport answers makes exactly one statsd.timer
\* and one statsd.incr call; the timer key is the path segments of the request
\* URL joined with '.', then '.' and the method; the counter key is that key,
\* then '.' and the status code.
C6_OneTimerOneCounter ==
    (last.op \in Verbs /\ Answered) =>
        LET key == Dotted(PathSegments(urlsplit(last.sent[1].url).path))
                       \o <<".", Method(last.op)>>
        IN  /\ Len(last.sent) = 1
            /\ last.timers = <<key>>
            /\ last.counters = <<key \o <<".", StatusToken(Status)>>>>

C6_Witness ==
    /\ last.op = "get" /\ Answered /\ Status = 200
    /\ last.sent[1].url = <<"http://foo.com", "/", "services", "/", "settings", "/">>
    /\ last.counters = <<<<"services", ".", "settings", ".", "GET", ".", "200">>>>

\* C7: an adapter reached by attribute accesses alone has as base URL the root
\* URL followed by the accessed names in order, slash-joined; an access adds
\* one adapter and changes no existing one; with append_slash on, a verb call
\* on such an adapter dispatches to that URL followed by one slash.
C7_ChainBuildsUrl ==
    /\ [](\A i \in 1..Len(adapters) :
            OnlyAttr(adapters[i].chain) =>
                adapters[i].base_url =
                    RootThenNames(rootStore.base_url, ChainItems(adapters[i].chain)))
    /\ [][last'.op = "getattr" =>
            /\ \A j \in 1..Len(adapters) : adapters'[j] = adapters[j]
            /\ rootStore' = rootStore
            /\ last'.outcome.kind = "return" =>
                  /\ Len(adapters') = Len(adapters) + 1
                  /\ adapters'[Len(adapters')].chain =
                        Append(Chain(last'.self),
                               [via |-> "attr", item |-> last'.arg])]_vars
    /\ []((last.op \in Verbs /\ last.sent # <<>>
           /\ OnlyAttr(adapters[last.self].chain)) =>
              last.sent[1].url =
                  RootThenNames(rootStore.base_url,
                                ChainItems(adapters[last.self].chain))
                  \o (IF rootStore.append_slash THEN <<"/">> ELSE <<>>))

C7_Witness ==
    /\ Len(adapters) = 2
    /\ ChainItems(adapters[2].chain) = <<<<"settings">>, <<"services">>>>
    /\ OnlyAttr(adapters[2].chain)
    /\ rootStore.append_slash
    /\ last.op = "post" /\ last.self = 2
    /\ last.sent[1].url =
          <<"http://foo.com", "/", "api", "/", "settings", "/", "services", "/">>

ByUrlAdapter == adapters[last.outcome.value.id]

\* C8 as claimed: any path of two segments and an optional third gives the
\* adapter of the chain root.seg1.seg2, called with the third when there is
\* one; a path of fewer than two segments fails with IndexError.
C8_AnyTwoSegmentPath ==
    last.op = "by_url" =>
        LET segs == PathSegments(last.arg)
        IN  /\ Len(segs) \in {2, 3} =>
                  /\ last.outcome.kind = "return"
                  /\ ByUrlAdapter.base_url =
                        RootThenNames(rootStore.base_url,
                                      [k \in 1..Len(segs) |-> <<segs[k]>>])
            /\ Len(segs) < 2 => Raised("IndexError")

\* C8 amended: '/seg1/seg2/' gives the adapter of root.seg1.seg2, and
\* '/seg1/seg2/pk' and '/seg1/seg2/pk/' that of root.seg1.seg2(pk); a path with
\* fewer than three slashes fails with IndexError.
C8_LeadingSlashPath ==
    last.op = "by_url" =>
        LET url == last.arg
            n == Len(url)
            slashes == Len(url) - Len(PathSegments(url))
            wellFormed == /\ n \in 5..7
                          /\ url[1] = "/" /\ url[3] = "/" /\ url[5] = "/"
                          /\ url[2] # "/" /\ url[4] # "/"
                          /\ n >= 6 => url[6] # "/"
                          /\ n = 7 => url[7] = "/"
        IN  /\ wellFormed =>
                  /\ last.outcome.kind = "return"
                  /\ ByUrlAdapter.base_url =
                        RootThenNames(rootStore.base_url,
                                      [k \in 1..Len(PathSegments(url)) |->
                                          <<PathSegments(url)[k]>>])
            /\ slashes < 3 => Raised("IndexError")

C8_Witness ==
    /\ last.op = "by_url"
    /\ last.arg = <<"/", "services", "/", "settings", "/", "8", "/">>
    /\ last.outcome.kind = "return"
    /\ ByUrlAdapter.base_url =
          <<"http://foo.com", "/", "services", "/", "settings", "/", "8">>
====
